---- MODULE Spec2Model ----
(***************************************************************************)
(* Model of the copypal upload pipeline.                                   *)
(*                                                                         *)
(*   SpecHub    the progress broadcast hub of backend/src/index.ts:        *)
(*              progressConnections, startProgressMonitoring and the       *)
(*              Bun websocket message/close handlers.                      *)
(*   SpecClient the reconnecting subscriber FileProgressBarWS.tsx.         *)
(*   SpecPipe   POST /v1/clipboard with uploadFileWithChunking, the        *)
(*              bounded status wait and downloadFileFromChunks.            *)
(*   SpecTtl    the effective retention computed by POST /v1/clipboard.    *)
(*   SpecRead   GET /v1/clipboard/:id and /download on a stored item.      *)
(*   SpecResume uploadFileWithResumption of filesdb-client-enhanced.ts.    *)
(*   SpecHubOverlap  the hub with overlapping callbacks of one interval.   *)
(***************************************************************************)
EXTENDS Integers, Sequences, FiniteSets, TLC

(***************************************************************************)
(* Bounds of the model.                                                    *)
(***************************************************************************)
NumIds == 2
NumConns == 2
MaxLoops == 2
MaxInFlight == 1
MaxOverlap == 2      \* callbacks of one interval that may overlap in SpecHubOverlap
\* sockets one FileProgressBarWS instance creates in a behaviour
MaxSockets == 3
\* the chunk size and threshold, scaled down from 512 * 1024 bytes
CHUNK_SIZE == 2
\* longest decoded payload of a creation request
MaxLen == 5
\* the bounded wait in seconds, scaled down from 30000 ms
MaxWaitTime == 3
\* day counts are held in units of 1/DayParts day: ttlDays is a z.number(),
\* not an integer
DayParts == 2
\* milliseconds of a day, scaled down from 24 * 60 * 60 * 1000
DayMs == 4
\* expiresAt lies at most this many days (and one millisecond) after Date.now()
MaxRemainingDays == 3
\* longest payload of an item read back
MaxReadLen == 3
\* session keys of the resumable upload
NumKeys == 2
\* POST /files requests one behaviour of the resumable upload sends
MaxPosts == 2

Ids == 1..NumIds
Conns == 1..NumConns
LoopSlots == 1..MaxLoops

Statuses == {"uploading", "completed", "failed"}

VARIABLES
  \* ---- hub (backend/src/index.ts) ----
  progressConnections, \* Map<clipboardId, Set<ws>>: a function on the ids that have an entry
  readyState,          \* per server-side ws: "open", "closing" (not OPEN, close handler
                       \* not yet run), "closed" (close handler has run)
  wsData,              \* ws.data.clipboardId, 0 when unset
  loops,               \* the setInterval timers created by startProgressMonitoring
  uploadStatus,        \* the Blob Store's status per identifier (external)
  sent,                \* the frames the last step sent: their type, identifier and
                       \* status, and the connections ws.send was called on
  terminalSent         \* history, per ws that is OPEN: the identifiers of the progress
                       \* frames with a terminal status that ws.send was called with on it

hubVars == <<progressConnections, readyState, wsData, loops, uploadStatus, sent,
             terminalSent>>

VARIABLES
  \* ---- client subscriber (frontend/src/components/FileProgressBarWS.tsx) ----
  mounted,             \* the component is mounted
  clipboardId,         \* prop of the last render, 0 for null
  isUploading,         \* prop of the last render
  cleanupArmed,        \* the last effect run returned the closing cleanup
  socks,               \* every WebSocket the instance created, in creation order
  wsRef,               \* wsRef.current: index into socks, 0 for null
  reconnectTimeoutRef, \* reconnectTimeoutRef.current: the socket whose close event
                       \* set the timer it holds, 0 for null
  progressRef,         \* status of progressRef.current, "none" for null
  lastCode             \* event.code of the last close event handled, 0 before any

clientVars == <<mounted, clipboardId, isUploading, cleanupArmed, socks, wsRef,
                reconnectTimeoutRef, progressRef, lastCode>>

VARIABLES
  \* ---- POST /v1/clipboard, chunking and reassembly (backend/src/index.ts) ----
  pc,                  \* position of the creation request
  req,                 \* the parsed request body
  buffer,              \* Buffer.from(fileData, 'base64')
  objects,             \* the Blob Store: object i is the one with file_id i
  calls,               \* every upload call made, in order: [name, ok]
  chunkIds,            \* chunkIds of uploadFileWithChunking
  fileId,              \* fileId of the handler, 0 before the upload returned
  storeStatus,         \* the store's upload status of fileId (external)
  elapsed,             \* Date.now() - startTime, in seconds
  uploadCompleted,     \* uploadCompleted of the handler
  entities,            \* entities # null
  sawFailed,           \* history: a status poll of this request answered 'failed'
  pollErrors,          \* history: the status polls of this request that threw
  response,            \* the HTTP response, once sent
  inFlight,            \* names of the uploads called and not yet returned
  dl                   \* downloadFileFromChunks(fileId): position, chunks read, result

pipeVars == <<pc, req, buffer, objects, calls, chunkIds, fileId, storeStatus, elapsed,
              uploadCompleted, entities, sawFailed, pollErrors, response, inFlight, dl>>

VARIABLES
  \* ---- retention of POST /v1/clipboard (backend/src/index.ts) ----
  ttlBody,             \* ttlDays and expiresAt of the request body
  effectiveTtlDays     \* effectiveTtlDays of the handler, 0 before a request

ttlVars == <<ttlBody, effectiveTtlDays>>

VARIABLES
  \* ---- GET /v1/clipboard/:id and /download (backend/src/index.ts) ----
  item,                \* what the creation request left in the Blob Store under the
                       \* identifier it returned, and whether its expiry time has passed
  read                 \* the last read request and its response

readVars == <<item, read>>

VARIABLES
  \* ---- uploadFileWithResumption (backend/src/filesdb-client-enhanced.ts) ----
  sessions,            \* the store's upload session per idempotency key (external)
  created,             \* the number of objects the store has created
  posts,               \* the Idempotency-Key of every POST /files sent, in order
  resume               \* the call of uploadFileWithResumption: position, key, result

resumeVars == <<sessions, created, posts, resume>>

vars == <<hubVars, clientVars, pipeVars, ttlVars, readVars, resumeVars>>

nonHubVars == <<clientVars, pipeVars, ttlVars, readVars, resumeVars>>
nonClientVars == <<hubVars, pipeVars, ttlVars, readVars, resumeVars>>
nonPipeVars == <<hubVars, clientVars, ttlVars, readVars, resumeVars>>
nonTtlVars == <<hubVars, clientVars, pipeVars, readVars, resumeVars>>
nonReadVars == <<hubVars, clientVars, pipeVars, ttlVars, resumeVars>>
nonResumeVars == <<hubVars, clientVars, pipeVars, ttlVars, readVars>>

(***************************************************************************)
(* Hub                                                                     *)
(***************************************************************************)
NoInFlight == [r \in Statuses |-> 0]

\* an unused timer slot
FreeLoop == [id |-> 0, active |-> FALSE, inflight |-> NoInFlight, grace |-> 0]

InFlightCount(l) ==
  l.inflight["uploading"] + l.inflight["completed"] + l.inflight["failed"]

\* a loop whose interval is cleared and that has no callback or timeout left is gone
Settle(l) ==
  IF ~l.active /\ InFlightCount(l) = 0 /\ l.grace = 0 THEN FreeLoop ELSE l

MapDelete(m, k) == [i \in DOMAIN m \ {k} |-> m[i]]
MapSet(m, k, v) == [i \in DOMAIN m \cup {k} |-> IF i = k THEN v ELSE m[i]]

FreeSlots == {s \in LoopSlots : loops[s].id = 0}
FirstFree == CHOOSE s \in FreeSlots : \A t \in FreeSlots : s <= t

IsTerminal(r) == r = "completed" \/ r = "failed"

\* the step sent nothing
NoSend == [type |-> "none", id |-> 0, status |-> "none", to |-> {}]

\* the connections of the identifier's set that are OPEN
OpenSubscribers(id) ==
  IF id \in DOMAIN progressConnections
    THEN {c \in progressConnections[id] : readyState[c] = "open"}
    ELSE {}

InitHub ==
  /\ progressConnections = <<>>
  /\ readyState = [c \in Conns |-> "open"]
  /\ wsData = [c \in Conns |-> 0]
  /\ loops = [s \in LoopSlots |-> FreeLoop]
  /\ uploadStatus = [i \in Ids |-> "uploading"]
  /\ sent = NoSend
  /\ terminalSent = [c \in Conns |-> {}]

\* startProgressMonitoring(clipboardId), given the registry it reads
StartedLoops(reg, id) ==
  IF id \notin DOMAIN reg \/ reg[id] = {}
    THEN loops
    ELSE [loops EXCEPT ![FirstFree] =
            [id |-> id, active |-> TRUE, inflight |-> NoInFlight, grace |-> 0]]

\* Subscribe without the 'subscribed' frame
Subscribe_NoAck(c, id) ==
  /\ readyState[c] = "open"
  /\ LET old == IF id \in DOMAIN progressConnections THEN progressConnections[id] ELSE {}
         reg == MapSet(progressConnections, id, old \cup {c})
     IN /\ (Cardinality(reg[id]) = 1 => FreeSlots # {})
        /\ progressConnections' = reg
        /\ wsData' = [wsData EXCEPT ![c] = id]
        /\ sent' = NoSend
        /\ loops' = IF Cardinality(reg[id]) = 1 THEN StartedLoops(reg, id) ELSE loops
  /\ UNCHANGED <<readyState, uploadStatus>>
  /\ UNCHANGED terminalSent
  /\ UNCHANGED nonHubVars

\* websocket.message with {type: 'subscribe', clipboard_id: id}
Subscribe(c, id) ==
  /\ readyState[c] = "open"
  /\ LET old == IF id \in DOMAIN progressConnections THEN progressConnections[id] ELSE {}
         reg == MapSet(progressConnections, id, old \cup {c})
     IN /\ (Cardinality(reg[id]) = 1 => FreeSlots # {})
        /\ progressConnections' = reg
        /\ wsData' = [wsData EXCEPT ![c] = id]
        /\ sent' = [type |-> "subscribed", id |-> id, status |-> "none", to |-> {c}]
        /\ loops' = IF Cardinality(reg[id]) = 1 THEN StartedLoops(reg, id) ELSE loops
  /\ UNCHANGED <<readyState, uploadStatus>>
  /\ UNCHANGED terminalSent
  /\ UNCHANGED nonHubVars

\* the interval fires: the callback starts and getUploadStatus is answered with
\* the store's status; the callback then waits for getFileInfo. setInterval does
\* not wait for a callback to return: up to cap callbacks of a loop overlap
TickWithin(s, cap) ==
  /\ loops[s].id # 0
  /\ loops[s].active
  /\ InFlightCount(loops[s]) < cap
  /\ loops' = [loops EXCEPT ![s].inflight[uploadStatus[loops[s].id]] = @ + 1]
  /\ sent' = NoSend
  /\ UNCHANGED <<progressConnections, readyState, wsData, uploadStatus>>
  /\ UNCHANGED terminalSent
  /\ UNCHANGED nonHubVars

\* the callbacks of one interval that have not yet returned are at most MaxInFlight
Tick(s) == TickWithin(s, MaxInFlight)

\* PushProgress that leaves the connections that are not OPEN in the set
PushProgress_NoPrune(s, r) ==
  /\ r \in Statuses
  /\ loops[s].inflight[r] > 0
  /\ LET id == loops[s].id
         has == id \in DOMAIN progressConnections
         kept == IF has THEN {c \in progressConnections[id] : readyState[c] = "open"} ELSE {}
         l1 == [loops[s] EXCEPT !.inflight[r] = @ - 1]
         l2 == IF IsTerminal(r) THEN [l1 EXCEPT !.active = FALSE, !.grace = @ + 1] ELSE l1
     IN /\ sent' = [type |-> "progress", id |-> id, status |-> r, to |-> kept]
        /\ loops' = [loops EXCEPT ![s] = Settle(l2)]
        /\ terminalSent' = [c \in Conns |->
             IF IsTerminal(r) /\ c \in kept THEN terminalSent[c] \cup {id}
             ELSE terminalSent[c]]
  /\ UNCHANGED <<progressConnections, readyState, wsData, uploadStatus>>
  /\ UNCHANGED nonHubVars

\* PushProgress without the clearInterval of the terminal branch
PushProgress_NoClear(s, r) ==
  /\ r \in Statuses
  /\ loops[s].inflight[r] > 0
  /\ LET id == loops[s].id
         has == id \in DOMAIN progressConnections
         kept == IF has THEN {c \in progressConnections[id] : readyState[c] = "open"} ELSE {}
         l1 == [loops[s] EXCEPT !.inflight[r] = @ - 1]
         l2 == IF IsTerminal(r) THEN [l1 EXCEPT !.grace = @ + 1] ELSE l1
     IN /\ progressConnections' =
             IF ~has THEN progressConnections
             ELSE IF kept = {} THEN MapDelete(progressConnections, id)
             ELSE MapSet(progressConnections, id, kept)
        /\ sent' = [type |-> "progress", id |-> id, status |-> r, to |-> kept]
        /\ loops' = [loops EXCEPT ![s] = Settle(l2)]
        /\ terminalSent' = [c \in Conns |->
             IF IsTerminal(r) /\ c \in kept THEN terminalSent[c] \cup {id}
             ELSE terminalSent[c]]
  /\ UNCHANGED <<readyState, wsData, uploadStatus>>
  /\ UNCHANGED nonHubVars

\* the callback resumes with a status: push, prune, terminal check
PushProgress(s, r) ==
  /\ r \in Statuses
  /\ loops[s].inflight[r] > 0
  /\ LET id == loops[s].id
         has == id \in DOMAIN progressConnections
         kept == IF has THEN {c \in progressConnections[id] : readyState[c] = "open"} ELSE {}
         l1 == [loops[s] EXCEPT !.inflight[r] = @ - 1]
         l2 == IF IsTerminal(r) THEN [l1 EXCEPT !.active = FALSE, !.grace = @ + 1] ELSE l1
     IN /\ progressConnections' =
             IF ~has THEN progressConnections
             ELSE IF kept = {} THEN MapDelete(progressConnections, id)
             ELSE MapSet(progressConnections, id, kept)
        /\ sent' = [type |-> "progress", id |-> id, status |-> r, to |-> kept]
        /\ loops' = [loops EXCEPT ![s] = Settle(l2)]
        /\ terminalSent' = [c \in Conns |->
             IF IsTerminal(r) /\ c \in kept THEN terminalSent[c] \cup {id}
             ELSE terminalSent[c]]
  /\ UNCHANGED <<readyState, wsData, uploadStatus>>
  /\ UNCHANGED nonHubVars

\* TickError whose catch branch also clears the interval
TickError_StopsLoop(s) ==
  /\ loops[s].id # 0
  /\ loops[s].active
  /\ sent' = [type |-> "error", id |-> loops[s].id, status |-> "none",
              to |-> OpenSubscribers(loops[s].id)]
  /\ loops' = [loops EXCEPT ![s] = Settle([loops[s] EXCEPT !.active = FALSE])]
  /\ UNCHANGED <<progressConnections, readyState, wsData, uploadStatus>>
  /\ UNCHANGED terminalSent
  /\ UNCHANGED nonHubVars

\* the interval fires and getUploadStatus throws: the catch branch sends error
\* frames to the open subscribers and changes nothing else
TickError(s) ==
  /\ loops[s].id # 0
  /\ loops[s].active
  /\ sent' = [type |-> "error", id |-> loops[s].id, status |-> "none",
              to |-> OpenSubscribers(loops[s].id)]
  /\ UNCHANGED <<progressConnections, readyState, wsData, loops, uploadStatus>>
  /\ UNCHANGED terminalSent
  /\ UNCHANGED nonHubVars

\* GraceFire that closes the connections but keeps the registry entry
GraceFire_KeepEntry(s) ==
  /\ loops[s].grace > 0
  /\ LET id == loops[s].id
         has == id \in DOMAIN progressConnections
     IN readyState' = [c \in Conns |->
              IF has /\ c \in progressConnections[id] /\ readyState[c] = "open"
                THEN "closing" ELSE readyState[c]]
  /\ loops' = [loops EXCEPT ![s] = Settle([loops[s] EXCEPT !.grace = @ - 1])]
  /\ sent' = NoSend
  /\ terminalSent' = [x \in Conns |-> IF readyState'[x] = "open" THEN terminalSent[x] ELSE {}]
  /\ UNCHANGED <<progressConnections, wsData, uploadStatus>>
  /\ UNCHANGED nonHubVars

\* the 5000 ms timeout set on a terminal status
GraceFire(s) ==
  /\ loops[s].grace > 0
  /\ LET id == loops[s].id
         has == id \in DOMAIN progressConnections
     IN /\ readyState' = [c \in Conns |->
              IF has /\ c \in progressConnections[id] /\ readyState[c] = "open"
                THEN "closing" ELSE readyState[c]]
        /\ progressConnections' = IF has THEN MapDelete(progressConnections, id)
                                  ELSE progressConnections
  /\ loops' = [loops EXCEPT ![s] = Settle([loops[s] EXCEPT !.grace = @ - 1])]
  /\ sent' = NoSend
  /\ terminalSent' = [x \in Conns |-> IF readyState'[x] = "open" THEN terminalSent[x] ELSE {}]
  /\ UNCHANGED <<wsData, uploadStatus>>
  /\ UNCHANGED nonHubVars

\* the peer (or the network) ends the connection
PeerClose(c) ==
  /\ readyState[c] = "open"
  /\ readyState' = [readyState EXCEPT ![c] = "closing"]
  /\ sent' = NoSend
  /\ terminalSent' = [x \in Conns |-> IF readyState'[x] = "open" THEN terminalSent[x] ELSE {}]
  /\ UNCHANGED <<progressConnections, wsData, loops, uploadStatus>>
  /\ UNCHANGED nonHubVars

\* websocket.close(ws)
CloseHandler(c) ==
  /\ readyState[c] = "closing"
  /\ readyState' = [readyState EXCEPT ![c] = "closed"]
  /\ LET id == wsData[c]
     IN progressConnections' =
          IF id # 0 /\ id \in DOMAIN progressConnections
            THEN IF progressConnections[id] \ {c} = {}
                   THEN MapDelete(progressConnections, id)
                   ELSE MapSet(progressConnections, id, progressConnections[id] \ {c})
            ELSE progressConnections
  /\ sent' = NoSend
  /\ UNCHANGED <<wsData, loops, uploadStatus>>
  /\ UNCHANGED terminalSent
  /\ UNCHANGED nonHubVars

\* the Blob Store finishes the upload (external)
StoreFinish(id, r) ==
  /\ uploadStatus[id] = "uploading"
  /\ IsTerminal(r)
  /\ uploadStatus' = [uploadStatus EXCEPT ![id] = r]
  /\ sent' = NoSend
  /\ UNCHANGED <<progressConnections, readyState, wsData, loops>>
  /\ UNCHANGED terminalSent
  /\ UNCHANGED nonHubVars

NextHub ==
  \/ \E c \in Conns, id \in Ids : Subscribe(c, id)
  \/ \E s \in LoopSlots : Tick(s)
  \/ \E s \in LoopSlots, r \in Statuses : PushProgress(s, r)
  \/ \E s \in LoopSlots : TickError(s)
  \/ \E s \in LoopSlots : GraceFire(s)
  \/ \E c \in Conns : PeerClose(c)
  \/ \E c \in Conns : CloseHandler(c)
  \/ \E id \in Ids, r \in Statuses : StoreFinish(id, r)


\* at most one timer slot is in use
OneLoop == Cardinality({s \in LoopSlots : loops[s] # FreeLoop}) <= 1

\* the hub with up to MaxOverlap overlapping callbacks per interval, in the
\* behaviours in which no second interval is started while one is in use
NextHubOverlap ==
  \/ \E c \in Conns, id \in Ids : Subscribe(c, id) /\ OneLoop'
  \/ \E s \in LoopSlots : TickWithin(s, MaxOverlap)
  \/ \E s \in LoopSlots, r \in Statuses : PushProgress(s, r)
  \/ \E s \in LoopSlots : TickError(s)
  \/ \E s \in LoopSlots : GraceFire(s)
  \/ \E c \in Conns : PeerClose(c)
  \/ \E c \in Conns : CloseHandler(c)
  \/ \E id \in Ids, r \in Statuses : StoreFinish(id, r)

(***************************************************************************)
(* Client subscriber                                                       *)
(***************************************************************************)
\* event.code !== 1000
NormalClosure == 1000
\* close codes a browser reports: normal, no status received (close() without
\* a code, echoed by the peer), abnormal (connection lost or never opened)
CloseCodes == {NormalClosure, 1005, 1006}

\* the identifiers the component is rendered with: a re-render with the same
\* identifier (a new onComplete, so a new connectWebSocket) tears down and
\* reconnects exactly as a change of identifier does
ClientIds == {1}

ProgressTerminal(p) == p = "completed" \/ p = "failed"

InitClient ==
  /\ mounted = TRUE
  /\ clipboardId = 0
  /\ isUploading = FALSE
  /\ cleanupArmed = FALSE
  /\ socks = <<>>
  /\ wsRef = 0
  /\ reconnectTimeoutRef = 0
  /\ progressRef = "none"
  /\ lastCode = 0

NewSocket(cid) ==
  [cid |-> cid, state |-> "connecting", closeTimer |-> FALSE,
   tornDown |-> FALSE, timer |-> "none"]

\* connectWebSocket of the render whose clipboardId is cid, run on (ss, ref):
\* the sockets and wsRef.current it leaves
ConnectWebSocket(cid, ss, ref) ==
  IF cid = 0 \/ (ref # 0 /\ ss[ref].state = "open")
    THEN [socks |-> ss, wsRef |-> ref]
    ELSE [socks |-> Append(ss, NewSocket(cid)), wsRef |-> Len(ss) + 1]

\* ws.close()
Closed(k) ==
  IF k.state \in {"connecting", "open"} THEN [k EXCEPT !.state = "closing"] ELSE k

\* the cleanup the effect returned after connectWebSocket()
Cleanup(ss, ref, tref) ==
  LET s1 == IF tref # 0 /\ ss[tref].timer = "pending"
              THEN [ss EXCEPT ![tref].timer = "none"] ELSE ss
      s2 == IF ref # 0
              THEN [s1 EXCEPT ![ref] = [Closed(s1[ref]) EXCEPT !.tornDown = TRUE]] ELSE s1
  IN [socks |-> s2, wsRef |-> 0, reconnectTimeoutRef |-> 0]

AfterCleanup ==
  IF cleanupArmed THEN Cleanup(socks, wsRef, reconnectTimeoutRef)
  ELSE [socks |-> socks, wsRef |-> wsRef, reconnectTimeoutRef |-> reconnectTimeoutRef]

\* a render commits with props (cid, up) and a new connectWebSocket: the effect's
\* cleanup runs, then the effect
Render(cid, up) ==
  /\ mounted
  /\ LET a == AfterCleanup
         c == IF ~up /\ cid # 0
                THEN ConnectWebSocket(cid, a.socks, a.wsRef)
                ELSE [socks |-> a.socks, wsRef |-> a.wsRef]
     IN /\ Len(c.socks) <= MaxSockets
        /\ socks' = c.socks
        /\ wsRef' = c.wsRef
        /\ reconnectTimeoutRef' = a.reconnectTimeoutRef
        /\ cleanupArmed' = (~up /\ cid # 0)
        /\ progressRef' = IF ~up /\ cid = 0 THEN "none" ELSE progressRef
  /\ clipboardId' = cid
  /\ isUploading' = up
  /\ UNCHANGED <<mounted, lastCode>>
  /\ UNCHANGED nonClientVars

Unmount ==
  /\ mounted
  /\ mounted' = FALSE
  /\ LET a == AfterCleanup
     IN /\ socks' = a.socks
        /\ wsRef' = a.wsRef
        /\ reconnectTimeoutRef' = a.reconnectTimeoutRef
  /\ cleanupArmed' = FALSE
  /\ UNCHANGED <<clipboardId, isUploading, progressRef, lastCode>>
  /\ UNCHANGED nonClientVars

\* ws.onopen
SocketOpen(k) ==
  /\ k \in 1..Len(socks)
  /\ socks[k].state = "connecting"
  /\ socks' = [socks EXCEPT ![k].state = "open"]
  /\ UNCHANGED <<mounted, clipboardId, isUploading, cleanupArmed, wsRef,
                 reconnectTimeoutRef, progressRef, lastCode>>
  /\ UNCHANGED nonClientVars

\* ws.onmessage with a progress frame of status st
ProgressFrame(k, st) ==
  /\ k \in 1..Len(socks)
  /\ socks[k].state = "open"
  /\ progressRef' = st
  /\ socks' = IF ProgressTerminal(st) THEN [socks EXCEPT ![k].closeTimer = TRUE] ELSE socks
  /\ UNCHANGED <<mounted, clipboardId, isUploading, cleanupArmed, wsRef,
                 reconnectTimeoutRef, lastCode>>
  /\ UNCHANGED nonClientVars

\* setTimeout(() => ws.close(), 2000) fires
CloseTimerFire(k) ==
  /\ k \in 1..Len(socks)
  /\ socks[k].closeTimer
  /\ socks' = [socks EXCEPT ![k] = [Closed(socks[k]) EXCEPT !.closeTimer = FALSE]]
  /\ UNCHANGED <<mounted, clipboardId, isUploading, cleanupArmed, wsRef,
                 reconnectTimeoutRef, progressRef, lastCode>>
  /\ UNCHANGED nonClientVars

\* shouldReconnect of ws.onclose
ShouldReconnect(code, p) == code # NormalClosure /\ p # "completed" /\ p # "failed"

\* ws.onclose with event.code = code. A 2000 ms close timeout still pending
\* for the socket is dropped here: its ws.close() on a closed socket does nothing.
CloseEvent(k, code) ==
  /\ k \in 1..Len(socks)
  /\ socks[k].state # "closed"
  /\ LET sr == ShouldReconnect(code, progressRef)
     IN /\ socks' = [socks EXCEPT ![k].state = "closed", ![k].closeTimer = FALSE,
                                   ![k].timer = IF sr THEN "pending" ELSE @]
        /\ reconnectTimeoutRef' = IF sr THEN k ELSE reconnectTimeoutRef
  /\ lastCode' = code
  /\ UNCHANGED <<mounted, clipboardId, isUploading, cleanupArmed, wsRef, progressRef>>
  /\ UNCHANGED nonClientVars

\* the 3000 ms reconnect timeout set by the close event of socket k fires
ReconnectFire(k) ==
  /\ k \in 1..Len(socks)
  /\ socks[k].timer = "pending"
  /\ LET c == ConnectWebSocket(socks[k].cid, [socks EXCEPT ![k].timer = "fired"], wsRef)
     IN /\ Len(c.socks) <= MaxSockets
        /\ socks' = c.socks
        /\ wsRef' = c.wsRef
  /\ reconnectTimeoutRef' = 0
  /\ UNCHANGED <<mounted, clipboardId, isUploading, cleanupArmed, progressRef, lastCode>>
  /\ UNCHANGED nonClientVars

NextClient ==
  \/ \E cid \in ClientIds \cup {0}, up \in BOOLEAN : Render(cid, up)
  \/ Unmount
  \/ \E k \in 1..MaxSockets : SocketOpen(k)
  \/ \E k \in 1..MaxSockets, st \in Statuses : ProgressFrame(k, st)
  \/ \E k \in 1..MaxSockets : CloseTimerFire(k)
  \/ \E k \in 1..MaxSockets, code \in CloseCodes : CloseEvent(k, code)
  \/ \E k \in 1..MaxSockets : ReconnectFire(k)

(***************************************************************************)
(* Creation request, chunking and reassembly                               *)
(***************************************************************************)
Byte == {0, 1}
Buffers == UNION {[1..n -> Byte] : n \in 0..MaxLen}

Min(a, b) == IF a < b THEN a ELSE b

\* fileData of the request body: undefined, or a base64 string, given by
\* whether it is the empty string and by the bytes it decodes to
FileDatas ==
  {[defined |-> FALSE, empty |-> FALSE, bytes |-> <<>>],
   [defined |-> TRUE, empty |-> TRUE, bytes |-> <<>>]}
  \cup {[defined |-> TRUE, empty |-> FALSE, bytes |-> b] : b \in Buffers}

\* fileName of the request body; "" stands for undefined or empty
FileNames == {"", "a.bin"}

Requests ==
  {[kind |-> "text", fileName |-> "", fileData |-> [defined |-> FALSE, empty |-> FALSE, bytes |-> <<>>]]}
  \cup {[kind |-> "file", fileName |-> n, fileData |-> f] : n \in FileNames, f \in FileDatas}

NoRequest == [kind |-> "none", fileName |-> "", fileData |-> [defined |-> FALSE, empty |-> FALSE, bytes |-> <<>>]]

\* no manifest: the object's bytes are not the JSON of a manifest
NoJson == [originalFileName |-> "", totalSize |-> -1, totalChunks |-> -1,
           chunkSize |-> -1, chunkIds |-> <<>>]

NoResponse == [success |-> FALSE, status |-> "none", id |-> 0]
\* intact: every chunk read so far came back as it is stored; fetched: the
\* identifiers given to downloadFile, in call order; error: the number n of the
\* message `Failed to download chunk ${n}: ${message}`, 0 when none was thrown
NoDownload == [pc |-> "none", i |-> 0, meta |-> NoJson, data |-> <<>>, intact |-> TRUE,
               result |-> "none", fetched |-> <<>>, error |-> 0]

\* names of stored objects: fileName, `${fileName}.chunk.${i}`, `${fileName}.metadata.json`
PlainName(n) == [base |-> n, suffix |-> "", index |-> 0]
ChunkName(n, i) == [base |-> n, suffix |-> ".chunk.", index |-> i]
MetadataName(n) == [base |-> n, suffix |-> ".metadata.json", index |-> 0]

\* fileName || 'file'
FileNameOf(r) == IF r.fileName = "" THEN "file" ELSE r.fileName

\* Math.ceil(totalSize / CHUNK_SIZE)
TotalChunks_Floor(totalSize) == totalSize \div CHUNK_SIZE
TotalChunks(totalSize) == (totalSize + CHUNK_SIZE - 1) \div CHUNK_SIZE

\* buffer.slice(i * CHUNK_SIZE, Math.min(i * CHUNK_SIZE + CHUNK_SIZE, totalSize))
ChunkBuffer_Overlap(buf, i) ==
  SubSeq(buf, IF i = 0 THEN 1 ELSE i * CHUNK_SIZE, Min(i * CHUNK_SIZE + CHUNK_SIZE, Len(buf)))
ChunkBuffer(buf, i) ==
  SubSeq(buf, i * CHUNK_SIZE + 1, Min(i * CHUNK_SIZE + CHUNK_SIZE, Len(buf)))

\* buffer.length > CHUNK_SIZE
NeedsChunking_AtThreshold(buf) == Len(buf) >= CHUNK_SIZE
NeedsChunking(buf) == Len(buf) > CHUNK_SIZE

\* Buffer.from(JSON.stringify(metadata)) and JSON.parse(buffer.toString()): the
\* stored object carries the manifest's fields; an object that is not a
\* manifest carries NoJson and does not parse to one
StringifyMetadata(m) == [bytes |-> <<>>, json |-> m]
ParseMetadata(content) == content.json

InitPipe ==
  /\ pc = "idle"
  /\ req = NoRequest
  /\ buffer = <<>>
  /\ objects = <<>>
  /\ calls = <<>>
  /\ chunkIds = <<>>
  /\ fileId = 0
  /\ storeStatus = "uploading"
  /\ elapsed = 0
  /\ uploadCompleted = FALSE
  /\ entities = FALSE
  /\ sawFailed = FALSE
  /\ pollErrors = 0
  /\ response = NoResponse
  /\ inFlight = {}
  /\ dl = NoDownload

\* the catch of the handler: 500 with success: false
Failure == [success |-> FALSE, status |-> "error", id |-> 0]

\* POST /v1/clipboard arrives: parse, decode, choose the path
Request(r) ==
  /\ pc = "idle"
  /\ req' = r
  /\ IF r.kind = "text"
       THEN /\ pc' = "direct"
            /\ UNCHANGED <<buffer, response>>
       ELSE IF r.kind = "file" /\ r.fileData.defined /\ ~r.fileData.empty
         THEN /\ buffer' = r.fileData.bytes
              /\ pc' = IF NeedsChunking(r.fileData.bytes) THEN "chunk" ELSE "direct"
              /\ UNCHANGED response
         ELSE /\ pc' = "done"
              /\ response' = Failure
              /\ UNCHANGED buffer
  /\ UNCHANGED <<objects, calls, chunkIds, fileId, storeStatus, elapsed, uploadCompleted,
                 entities, sawFailed, pollErrors, dl>>
  /\ UNCHANGED inFlight
  /\ UNCHANGED nonPipeVars

\* UploadDirect that makes a second attempt when the first upload call throws
UploadDirect_Retry(ok) ==
  /\ pc = "direct"
  /\ LET name == IF req.kind = "text" THEN PlainName("clipboard.txt")
                 ELSE PlainName(FileNameOf(req))
     IN /\ calls' = Append(calls, [name |-> name, ok |-> ok])
        /\ IF ok
             THEN /\ objects' = Append(objects, [name |-> name, bytes |-> buffer, json |-> NoJson])
                  /\ fileId' = Len(objects) + 1
                  /\ pc' = "poll"
                  /\ UNCHANGED response
             ELSE IF calls = <<>>
               THEN UNCHANGED <<pc, response, objects, fileId>>
               ELSE /\ pc' = "done"
                    /\ response' = Failure
                    /\ UNCHANGED <<objects, fileId>>
  /\ UNCHANGED <<req, buffer, chunkIds, storeStatus, elapsed, uploadCompleted, entities,
                 sawFailed, pollErrors, dl>>
  /\ UNCHANGED inFlight
  /\ UNCHANGED nonPipeVars

\* filesDBClient.uploadText / uploadFile of the whole payload returns or throws
UploadDirect(ok) ==
  /\ pc = "direct"
  /\ LET name == IF req.kind = "text" THEN PlainName("clipboard.txt")
                 ELSE PlainName(FileNameOf(req))
     IN /\ calls' = Append(calls, [name |-> name, ok |-> ok])
        /\ IF ok
             THEN /\ objects' = Append(objects, [name |-> name, bytes |-> buffer, json |-> NoJson])
                  /\ fileId' = Len(objects) + 1
                  /\ pc' = "poll"
                  /\ UNCHANGED response
             ELSE /\ pc' = "done"
                  /\ response' = Failure
                  /\ UNCHANGED <<objects, fileId>>
  /\ UNCHANGED <<req, buffer, chunkIds, storeStatus, elapsed, uploadCompleted, entities,
                 sawFailed, pollErrors, dl>>
  /\ UNCHANGED inFlight
  /\ UNCHANGED nonPipeVars

\* the object named by the next call of uploadFileWithChunking: chunk
\* chunkIds.length inside the loop, the metadata after it
NextUploadName ==
  IF pc = "chunk" THEN ChunkName(FileNameOf(req), Len(chunkIds))
  ELSE MetadataName(FileNameOf(req))

\* StartUpload of a loop that does not await: the next chunk's upload is
\* called while earlier ones have not returned
StartUpload_NoAwait ==
  /\ pc = "chunk"
  /\ Len(chunkIds) + Cardinality(inFlight) < TotalChunks(Len(buffer))
  /\ inFlight' = inFlight \cup {ChunkName(FileNameOf(req), Len(chunkIds) + Cardinality(inFlight))}
  /\ UNCHANGED <<pc, req, buffer, objects, calls, chunkIds, fileId, storeStatus, elapsed,
                 uploadCompleted, entities, sawFailed, pollErrors, response, dl>>
  /\ UNCHANGED nonPipeVars

\* uploadFileWithChunking calls filesDBClient.uploadFile and awaits it: the
\* function is at the call only when its previous call has returned
StartUpload ==
  /\ pc \in {"chunk", "manifest"}
  /\ inFlight = {}
  /\ inFlight' = {NextUploadName}
  /\ UNCHANGED <<pc, req, buffer, objects, calls, chunkIds, fileId, storeStatus, elapsed,
                 uploadCompleted, entities, sawFailed, pollErrors, response, dl>>
  /\ UNCHANGED nonPipeVars

\* UploadChunk that swallows a chunk's failure and goes on to the manifest
UploadChunk_SkipFailed(ok) ==
  /\ pc = "chunk"
  /\ LET i == Len(chunkIds)
         name == ChunkName(FileNameOf(req), i)
     IN /\ i < TotalChunks(Len(buffer))
        /\ inFlight = {name}
        /\ calls' = Append(calls, [name |-> name, ok |-> ok])
        /\ IF ok
             THEN /\ objects' = Append(objects,
                                       [name |-> name, bytes |-> ChunkBuffer(buffer, i), json |-> NoJson])
                  /\ chunkIds' = Append(chunkIds, Len(objects) + 1)
                  /\ pc' = IF i + 1 < TotalChunks(Len(buffer)) THEN "chunk" ELSE "manifest"
             ELSE /\ pc' = "manifest"
                  /\ UNCHANGED <<objects, chunkIds>>
  /\ UNCHANGED <<req, buffer, fileId, storeStatus, elapsed, uploadCompleted, entities,
                 sawFailed, pollErrors, response, dl>>
  /\ inFlight' = {}
  /\ UNCHANGED nonPipeVars

\* one turn of the chunk loop of uploadFileWithChunking: uploadFile of chunk
\* i = chunkIds.length returns or throws
UploadChunk(ok) ==
  /\ pc = "chunk"
  /\ LET i == Len(chunkIds)
         name == ChunkName(FileNameOf(req), i)
     IN /\ i < TotalChunks(Len(buffer))
        /\ inFlight = {name}
        /\ calls' = Append(calls, [name |-> name, ok |-> ok])
        /\ IF ok
             THEN /\ objects' = Append(objects,
                                       [name |-> name, bytes |-> ChunkBuffer(buffer, i), json |-> NoJson])
                  /\ chunkIds' = Append(chunkIds, Len(objects) + 1)
                  /\ pc' = IF i + 1 < TotalChunks(Len(buffer)) THEN "chunk" ELSE "manifest"
                  /\ UNCHANGED response
             ELSE /\ pc' = "done"
                  /\ response' = Failure
                  /\ UNCHANGED <<objects, chunkIds>>
  /\ UNCHANGED <<req, buffer, fileId, storeStatus, elapsed, uploadCompleted, entities,
                 sawFailed, pollErrors, dl>>
  /\ inFlight' = {}
  /\ UNCHANGED nonPipeVars

\* the metadata object of uploadFileWithChunking
Metadata ==
  [originalFileName |-> FileNameOf(req), totalSize |-> Len(buffer),
   totalChunks |-> TotalChunks(Len(buffer)), chunkSize |-> CHUNK_SIZE, chunkIds |-> chunkIds]

\* uploadFile of the metadata returns or throws
UploadMetadata(ok) ==
  /\ pc = "manifest"
  /\ LET name == MetadataName(FileNameOf(req))
         content == StringifyMetadata(Metadata)
     IN /\ inFlight = {name}
        /\ calls' = Append(calls, [name |-> name, ok |-> ok])
        /\ IF ok
             THEN /\ objects' = Append(objects,
                                       [name |-> name, bytes |-> content.bytes, json |-> content.json])
                  /\ fileId' = Len(objects) + 1
                  /\ pc' = "poll"
                  /\ UNCHANGED response
             ELSE /\ pc' = "done"
                  /\ response' = Failure
                  /\ UNCHANGED <<objects, fileId>>
  /\ UNCHANGED <<req, buffer, chunkIds, storeStatus, elapsed, uploadCompleted, entities,
                 sawFailed, pollErrors, dl>>
  /\ inFlight' = {}
  /\ UNCHANGED nonPipeVars

\* what the store's status can be by the time of the next poll
LaterStatuses(st) == IF st = "uploading" THEN Statuses ELSE {st}

\* Poll in which a throwing getUploadStatus reaches the handler's catch
Poll_ThrowFails(d, st, answered, keys) ==
  /\ pc = "poll"
  /\ ~uploadCompleted
  /\ elapsed < MaxWaitTime
  /\ st \in LaterStatuses(storeStatus)
  /\ storeStatus' = st
  /\ pollErrors' = IF answered THEN pollErrors ELSE pollErrors + 1
  /\ IF answered /\ st = "completed"
       THEN /\ uploadCompleted' = TRUE
            /\ entities' = keys
            /\ elapsed' = IF keys THEN elapsed + d ELSE elapsed + d + 1
            /\ UNCHANGED <<sawFailed, pc, response>>
       ELSE /\ keys = FALSE
            /\ sawFailed' = (sawFailed \/ (answered /\ st = "failed"))
            /\ elapsed' = IF answered THEN elapsed + d + 1 ELSE elapsed + d
            /\ pc' = IF answered THEN pc ELSE "done"
            /\ response' = IF answered THEN response ELSE Failure
            /\ UNCHANGED <<uploadCompleted, entities>>
  /\ UNCHANGED <<req, buffer, objects, calls, chunkIds, fileId, dl>>
  /\ UNCHANGED inFlight
  /\ UNCHANGED nonPipeVars

\* one turn of the wait loop: getUploadStatus takes d seconds and answers the
\* store's status st, or throws; on 'completed' getFileEntityKeys returns (keys)
\* or throws. Every path but the break sleeps one second.
Poll(d, st, answered, keys) ==
  /\ pc = "poll"
  /\ ~uploadCompleted
  /\ elapsed < MaxWaitTime
  /\ st \in LaterStatuses(storeStatus)
  /\ storeStatus' = st
  /\ pollErrors' = IF answered THEN pollErrors ELSE pollErrors + 1
  /\ IF answered /\ st = "completed"
       THEN /\ uploadCompleted' = TRUE
            /\ entities' = keys
            /\ elapsed' = IF keys THEN elapsed + d ELSE elapsed + d + 1
            /\ UNCHANGED sawFailed
       ELSE /\ keys = FALSE
            /\ sawFailed' = (sawFailed \/ (answered /\ st = "failed"))
            /\ elapsed' = elapsed + d + 1
            /\ UNCHANGED <<uploadCompleted, entities>>
  /\ UNCHANGED <<pc, req, buffer, objects, calls, chunkIds, fileId, response, dl>>
  /\ UNCHANGED inFlight
  /\ UNCHANGED nonPipeVars

\* Respond that answers an expired window with the failure response
Respond_TimeoutFails ==
  /\ pc = "poll"
  /\ uploadCompleted \/ elapsed >= MaxWaitTime
  /\ pc' = "done"
  /\ response' = IF uploadCompleted
                   THEN [success |-> TRUE,
                         status |-> IF entities THEN "completed" ELSE "uploading",
                         id |-> fileId]
                   ELSE Failure
  /\ UNCHANGED <<req, buffer, objects, calls, chunkIds, fileId, storeStatus, elapsed,
                 uploadCompleted, entities, sawFailed, pollErrors, dl>>
  /\ UNCHANGED inFlight
  /\ UNCHANGED nonPipeVars

\* the loop is left: the response is built from uploadCompleted and entities
Respond ==
  /\ pc = "poll"
  /\ uploadCompleted \/ elapsed >= MaxWaitTime
  /\ pc' = "done"
  /\ response' = [success |-> TRUE,
                   status |-> IF uploadCompleted /\ entities THEN "completed" ELSE "uploading",
                   id |-> fileId]
  /\ UNCHANGED <<req, buffer, objects, calls, chunkIds, fileId, storeStatus, elapsed,
                 uploadCompleted, entities, sawFailed, pollErrors, dl>>
  /\ UNCHANGED inFlight
  /\ UNCHANGED nonPipeVars

\* what downloadFile hands back for an object whose stored bytes are b: the
\* bytes, or the bytes with the last one missing, or with one more
Returns == {"stored", "truncated", "padded"}
Returned(b, got) ==
  IF got = "truncated" THEN SubSeq(b, 1, Len(b) - 1)
  ELSE IF got = "padded" THEN Append(b, 0)
  ELSE b

\* Assembled without the comparison of the lengths
Assembled_NoCheck(d) == [d EXCEPT !.pc = "done", !.result = "ok"]

\* the end of downloadFileFromChunks: concatenate and compare the length
Assembled(d) ==
  IF Len(d.data) # d.meta.totalSize
    THEN [d EXCEPT !.pc = "done", !.result = "size mismatch"]
    ELSE [d EXCEPT !.pc = "done", !.result = "ok"]

\* downloadFileFromChunks(metadataId) is called on the identifier returned
\* for a chunked item: downloadFile of the metadata returns or throws
DownloadMetadata(ok) ==
  /\ pc = "done"
  /\ response.success
  /\ dl.pc = "none"
  /\ objects[fileId].name.suffix = ".metadata.json"
  /\ dl' = IF ~ok \/ ParseMetadata(objects[fileId]) = NoJson
             THEN [dl EXCEPT !.pc = "done", !.result = "metadata failed",
                             !.fetched = Append(@, fileId)]
             ELSE LET d == [dl EXCEPT !.pc = "chunks", !.meta = ParseMetadata(objects[fileId]),
                                      !.fetched = Append(@, fileId)]
                  IN IF d.meta.totalChunks > 0 THEN d ELSE Assembled(d)
  /\ UNCHANGED <<pc, req, buffer, objects, calls, chunkIds, fileId, storeStatus, elapsed,
                 uploadCompleted, entities, sawFailed, pollErrors, response>>
  /\ UNCHANGED inFlight
  /\ UNCHANGED nonPipeVars

\* DownloadChunk that leaves a failed chunk out and goes on with the next one
DownloadChunk_SkipFailed(ok, got) ==
  /\ dl.pc = "chunks"
  /\ dl.i < dl.meta.totalChunks
  /\ ~ok => got = "stored"
  /\ dl' = LET chunkId == dl.meta.chunkIds[dl.i + 1]
               stored == objects[chunkId].bytes
               d == IF ok
                      THEN [dl EXCEPT !.i = @ + 1,
                                      !.data = @ \o Returned(stored, got),
                                      !.intact = @ /\ Returned(stored, got) = stored,
                                      !.fetched = Append(@, chunkId)]
                      ELSE [dl EXCEPT !.i = @ + 1, !.result = "chunk failed",
                                      !.error = dl.i + 1,
                                      !.fetched = Append(@, chunkId)]
           IN IF d.i < d.meta.totalChunks THEN d ELSE Assembled(d)
  /\ UNCHANGED <<pc, req, buffer, objects, calls, chunkIds, fileId, storeStatus, elapsed,
                 uploadCompleted, entities, sawFailed, pollErrors, response>>
  /\ UNCHANGED inFlight
  /\ UNCHANGED nonPipeVars

\* one turn of the download loop: downloadFile of chunkIds[dl.i] throws, and
\* the loop rethrows `Failed to download chunk ${i + 1}: ${message}`, or returns
\* what the store hands back; after the last chunk the buffers are combined
DownloadChunk(ok, got) ==
  /\ dl.pc = "chunks"
  /\ dl.i < dl.meta.totalChunks
  /\ ~ok => got = "stored"
  /\ dl' = LET chunkId == dl.meta.chunkIds[dl.i + 1]
           IN IF ~ok
                THEN [dl EXCEPT !.pc = "done", !.result = "chunk failed",
                                !.error = dl.i + 1,
                                !.fetched = Append(@, chunkId)]
                ELSE LET stored == objects[chunkId].bytes
                         d == [dl EXCEPT !.i = @ + 1,
                                         !.data = @ \o Returned(stored, got),
                                         !.intact = @ /\ Returned(stored, got) = stored,
                                         !.fetched = Append(@, chunkId)]
                     IN IF d.i < d.meta.totalChunks THEN d ELSE Assembled(d)
  /\ UNCHANGED <<pc, req, buffer, objects, calls, chunkIds, fileId, storeStatus, elapsed,
                 uploadCompleted, entities, sawFailed, pollErrors, response>>
  /\ UNCHANGED inFlight
  /\ UNCHANGED nonPipeVars

NextPipe ==
  \/ \E r \in Requests : Request(r)
  \/ \E ok \in BOOLEAN : UploadDirect(ok)
  \/ StartUpload
  \/ \E ok \in BOOLEAN : UploadChunk(ok)
  \/ \E ok \in BOOLEAN : UploadMetadata(ok)
  \/ \E d \in 0..1, st \in Statuses, answered \in BOOLEAN, keys \in BOOLEAN :
        Poll(d, st, answered, keys)
  \/ Respond
  \/ \E ok \in BOOLEAN : DownloadMetadata(ok)
  \/ \E ok \in BOOLEAN, got \in Returns : DownloadChunk(ok, got)

(***************************************************************************)
(* Retention                                                               *)
(***************************************************************************)
\* ttlDays: z.number().min(1).max(30).default(7)
MinTtlDays == 1
MaxTtlDays == 30
DefaultTtlDays == 7

\* ttlDays of a body, in units of 1/DayParts day; 0 stands for an omitted field
TtlInputs == {0} \cup ((MinTtlDays * DayParts)..(MaxTtlDays * DayParts))

\* expiresAt of a body: omitted, or a datetime given by expiresAt - Date.now()
\* in milliseconds at the time the handler reads the clock
Remainings == (0 - DayMs - 1)..(MaxRemainingDays * DayMs + 1)

NoTtlBody == [parsed |-> FALSE, ttlDays |-> 0, hasExpiresAt |-> FALSE, remaining |-> 0]

InitTtl ==
  /\ ttlBody = NoTtlBody
  /\ effectiveTtlDays = 0

\* clipboardSchema.parse: the default of ttlDays
ParsedTtlDays(t) == IF t = 0 THEN DefaultTtlDays * DayParts ELSE t

Max(a, b) == IF a > b THEN a ELSE b

\* Math.ceil(x / y) for y > 0
Ceil(x, y) == 0 - ((0 - x) \div y)

\* CalculatedTtl without the Math.max(1, ...)
CalculatedTtl_NoFloor(remaining) == DayParts * Ceil(remaining, DayMs)

\* Math.max(1, Math.ceil((expiresAt - now) / (24 * 60 * 60 * 1000)))
CalculatedTtl(remaining) == DayParts * Max(1, Ceil(remaining, DayMs))

\* effectiveTtlDays of the handler for a parsed body
EffectiveTtlDays(ttlDays, hasExpiresAt, remaining) ==
  IF hasExpiresAt
    THEN IF ttlDays # 0 THEN Min(ttlDays, CalculatedTtl(remaining))
         ELSE CalculatedTtl(remaining)
    ELSE ttlDays

\* POST /v1/clipboard parses a body and computes the retention
ComputeTtl(t, x, r) ==
  /\ ~ttlBody.parsed
  /\ ~x => r = 0
  /\ ttlBody' = [parsed |-> TRUE, ttlDays |-> t, hasExpiresAt |-> x, remaining |-> r]
  /\ effectiveTtlDays' = EffectiveTtlDays(ParsedTtlDays(t), x, r)
  /\ UNCHANGED nonTtlVars

NextTtl == \E t \in TtlInputs, x \in BOOLEAN, r \in Remainings : ComputeTtl(t, x, r)

(***************************************************************************)
(* Reading an item back                                                    *)
(***************************************************************************)
\* fileName of a creation body; "" stands for undefined or empty
ReadFileNames == {"", "a.bin", "a.metadata.json"}

\* fileType of a creation body; "" stands for undefined or empty
FileTypes == {"", "text/plain", "image/png"}

\* payloads of the items read back. Byte 0 stands for an ASCII byte, byte 1
\* for a byte that is not valid UTF-8 (0xFF)
ReadBuffers == UNION {[1..n -> Byte] : n \in 1..MaxReadLen}

\* a text item is the UTF-8 encoding of a string
IsUtf8(b) == \A k \in 1..Len(b) : b[k] = 0

\* the creation bodies POST /v1/clipboard stores
ReadRequests ==
  {[kind |-> "text", fileName |-> "", fileType |-> "", bytes |-> b] :
     b \in {x \in ReadBuffers : IsUtf8(x)}}
  \cup {[kind |-> "file", fileName |-> n, fileType |-> t, bytes |-> b] :
          n \in ReadFileNames, t \in FileTypes, b \in ReadBuffers}

NoItem == [path |-> "none", name |-> PlainName(""), contentType |-> "", bytes |-> <<>>,
           chunks |-> <<>>, expired |-> FALSE]

NoRead == [route |-> "none", status |-> "none", kind |-> "none", data |-> <<>>,
           reassembled |-> FALSE, expired |-> FALSE]

InitRead ==
  /\ item = NoItem
  /\ read = NoRead

\* fileType || 'application/octet-stream'
FileTypeOf(r) == IF r.fileType = "" THEN "application/octet-stream" ELSE r.fileType

\* the object whose identifier POST /v1/clipboard returns for body r, as the
\* store describes it (original_filename, content_type), with the payload it
\* stands for: uploadText, uploadFile, or the manifest of uploadFileWithChunking
\* next to the chunks
StoredItem(r) ==
  IF r.kind = "text"
    THEN [path |-> "text", name |-> PlainName("clipboard.txt"), contentType |-> "text/plain",
          bytes |-> r.bytes, chunks |-> <<>>, expired |-> FALSE]
  ELSE IF NeedsChunking(r.bytes)
    THEN [path |-> "chunked", name |-> MetadataName(FileNameOf(r)),
          contentType |-> "application/json", bytes |-> r.bytes,
          chunks |-> [i \in 1..TotalChunks(Len(r.bytes)) |-> ChunkBuffer(r.bytes, i - 1)],
          expired |-> FALSE]
  ELSE [path |-> "direct", name |-> PlainName(FileNameOf(r)), contentType |-> FileTypeOf(r),
        bytes |-> r.bytes, chunks |-> <<>>, expired |-> FALSE]

\* info.content_type?.startsWith('text/plain')
StartsWithTextPlain(contentType) == contentType = "text/plain"

\* info.original_filename?.endsWith('.metadata.json')
EndsWithMetadataJson(name) ==
  \/ name.suffix = ".metadata.json"
  \/ name.suffix = "" /\ name.base = "a.metadata.json"

\* data.toString('utf-8'), as the bytes of the string it yields: a byte that is
\* not valid UTF-8 becomes U+FFFD, written 2
Utf8Decoded(b) == [k \in 1..Len(b) |-> IF b[k] = 1 THEN 2 ELSE b[k]]

\* Buffer.concat(chunks) of the first n chunks
RECURSIVE Concat(_, _)
Concat(chunks, n) == IF n = 0 THEN <<>> ELSE Concat(chunks, n - 1) \o chunks[n]

ReadError(route, it) ==
  [route |-> route, status |-> "error", kind |-> "none", data |-> <<>>,
   reassembled |-> FALSE, expired |-> it.expired]

\* downloadFileFromChunks(fileId) on item it: an object that is no manifest
\* fails in JSON.parse or in the comparison of the lengths
FromChunks(route, it, dataOk) ==
  IF it.path = "chunked" /\ dataOk
    THEN [route |-> route, status |-> "ok", kind |-> "file",
          data |-> Concat(it.chunks, Len(it.chunks)), reassembled |-> TRUE,
          expired |-> it.expired]
    ELSE [ReadError(route, it) EXCEPT !.reassembled = TRUE]

\* filesDBClient.downloadFile(fileId) on item it
Direct(route, it, dataOk) ==
  IF dataOk
    THEN [route |-> route, status |-> "ok", kind |-> "file", data |-> it.bytes,
          reassembled |-> FALSE, expired |-> it.expired]
    ELSE ReadError(route, it)

\* POST /v1/clipboard with body r has answered with the item's identifier
Create(r) ==
  /\ item = NoItem
  /\ item' = StoredItem(r)
  /\ UNCHANGED read
  /\ UNCHANGED nonReadVars

\* the item's expiry time passes
Expire ==
  /\ item # NoItem
  /\ ~item.expired
  /\ item' = [item EXCEPT !.expired = TRUE]
  /\ UNCHANGED read
  /\ UNCHANGED nonReadVars

\* GET /v1/clipboard/:id: getFileInfo answers or throws (infoOk), and so does
\* the download that follows (dataOk). The store is asked whatever the item's
\* expiry time; whether it still serves the item then is the store's choice
GetClipboard(infoOk, dataOk) ==
  /\ item # NoItem
  /\ read' =
       IF ~infoOk THEN ReadError("get", item)
       ELSE IF StartsWithTextPlain(item.contentType)
         THEN IF dataOk
                THEN [route |-> "get", status |-> "ok", kind |-> "text",
                      data |-> Utf8Decoded(item.bytes), reassembled |-> FALSE,
                      expired |-> item.expired]
                ELSE ReadError("get", item)
       ELSE IF EndsWithMetadataJson(item.name) THEN FromChunks("get", item, dataOk)
       ELSE Direct("get", item, dataOk)
  /\ UNCHANGED item
  /\ UNCHANGED nonReadVars

\* GET /v1/clipboard/:id/download
GetDownload(infoOk, dataOk) ==
  /\ item # NoItem
  /\ read' =
       IF ~infoOk THEN ReadError("download", item)
       ELSE IF EndsWithMetadataJson(item.name) THEN FromChunks("download", item, dataOk)
       ELSE Direct("download", item, dataOk)
  /\ UNCHANGED item
  /\ UNCHANGED nonReadVars

NextRead ==
  \/ \E r \in ReadRequests : Create(r)
  \/ Expire
  \/ \E infoOk \in BOOLEAN, dataOk \in BOOLEAN : GetClipboard(infoOk, dataOk)
  \/ \E infoOk \in BOOLEAN, dataOk \in BOOLEAN : GetDownload(infoOk, dataOk)

(***************************************************************************)
(* Resumable upload                                                        *)
(***************************************************************************)
\* session keys a caller passes as resumeKey; 0 stands for an omitted resumeKey,
\* for which generateIdempotencyKey('session') makes a key no session exists for
ResumeKeys == 1..NumKeys

\* what GET /status/{key} says of a session: none exists, or completed and file_id
\* (0 for an absent file_id)
NoSession == [exists |-> FALSE, completed |-> FALSE, file_id |-> 0]

NoResume == [pc |-> "idle", key |-> 0, lookup |-> "none", posted |-> 0, result |-> 0]

InitResume ==
  /\ sessions = [k \in ResumeKeys |-> NoSession]
  /\ created = 0
  /\ posts = <<>>
  /\ resume = NoResume

\* existingSession.completed && existingSession.file_id
CompletedWithFileId(session) == session.completed /\ session.file_id # 0

\* how the answer of getUploadSessionStatus reads
LookupOf(session) ==
  IF CompletedWithFileId(session) THEN "completed"
  ELSE IF session.completed THEN "completed without file_id"
  ELSE "incomplete"

\* POST /v2/clipboard/resume-upload calls uploadFileWithResumption with the
\* sessionKey of the body; smartUpload calls it without one
CallResume(k) ==
  /\ resume.pc \in {"idle", "done", "failed"}
  /\ Len(posts) < MaxPosts
  /\ resume' = [NoResume EXCEPT !.pc = "lookup", !.key = k]
  /\ UNCHANGED <<sessions, created, posts>>
  /\ UNCHANGED nonResumeVars

\* SessionStatus that uploads whatever the session says
SessionStatus_AlwaysUpload(ok) ==
  /\ resume.pc = "lookup"
  /\ ok => (resume.key # 0 /\ sessions[resume.key].exists)
  /\ resume' = [resume EXCEPT !.pc = "upload",
                  !.lookup = IF ok THEN LookupOf(sessions[resume.key]) ELSE "failed"]
  /\ UNCHANGED <<sessions, created, posts>>
  /\ UNCHANGED nonResumeVars

\* getUploadSessionStatus(sessionKey) answers (ok) or throws: a key without a
\* session is not answered
SessionStatus(ok) ==
  /\ resume.pc = "lookup"
  /\ ok => (resume.key # 0 /\ sessions[resume.key].exists)
  /\ resume' =
       IF ok /\ CompletedWithFileId(sessions[resume.key])
         THEN [resume EXCEPT !.pc = "done", !.lookup = "completed",
                             !.result = sessions[resume.key].file_id]
         ELSE [resume EXCEPT !.pc = "upload",
                 !.lookup = IF ok THEN LookupOf(sessions[resume.key]) ELSE "failed"]
  /\ UNCHANGED <<sessions, created, posts>>
  /\ UNCHANGED nonResumeVars

\* fetch(POST /files) with 'Idempotency-Key': sessionKey is answered (ok) or
\* not. The store answers a key it has a file for with that file (dedup), or
\* creates an object; the session of the key holds the file and may be
\* completed by then or not (done)
PostFile(ok, dedup, done) ==
  /\ resume.pc = "upload"
  /\ posts' = Append(posts, resume.key)
  /\ dedup => (ok /\ resume.key # 0 /\ sessions[resume.key].file_id # 0)
  /\ ~ok => ~done
  /\ LET id == IF dedup THEN sessions[resume.key].file_id ELSE created + 1
     IN /\ created' = IF ok /\ ~dedup THEN created + 1 ELSE created
        /\ sessions' = IF ok /\ resume.key # 0
                         THEN [sessions EXCEPT ![resume.key] =
                                 [exists |-> TRUE, completed |-> (@.completed \/ done),
                                  file_id |-> id]]
                         ELSE sessions
        /\ resume' = IF ok
                       THEN [resume EXCEPT !.pc = "done", !.posted = @ + 1, !.result = id]
                       ELSE [resume EXCEPT !.pc = "failed", !.posted = @ + 1]
  /\ UNCHANGED nonResumeVars

\* the store's session of key k changes outside this client: an upload begun
\* elsewhere with the key, or a begun upload that completes (external)
StoreSession(k, completed, hasId) ==
  /\ LET old == sessions[k]
         id == IF old.file_id # 0 THEN old.file_id
               ELSE IF hasId THEN created + 1 ELSE 0
     IN /\ old.completed => completed
        /\ (old.file_id # 0) => hasId
        /\ [exists |-> TRUE, completed |-> completed, file_id |-> id] # old
        /\ sessions' = [sessions EXCEPT ![k] =
                          [exists |-> TRUE, completed |-> completed, file_id |-> id]]
        /\ created' = IF id # old.file_id THEN created + 1 ELSE created
  /\ UNCHANGED <<posts, resume>>
  /\ UNCHANGED nonResumeVars

NextResume ==
  \/ \E k \in ResumeKeys \cup {0} : CallResume(k)
  \/ \E ok \in BOOLEAN : SessionStatus(ok)
  \/ \E ok \in BOOLEAN, dedup \in BOOLEAN, done \in BOOLEAN : PostFile(ok, dedup, done)
  \/ \E k \in ResumeKeys, completed \in BOOLEAN, hasId \in BOOLEAN :
        StoreSession(k, completed, hasId)

Init == InitHub /\ InitClient /\ InitPipe /\ InitTtl /\ InitRead /\ InitResume

SpecTtl == Init /\ [][NextTtl]_vars

SpecPipe == Init /\ [][NextPipe]_vars

SpecHub == Init /\ [][NextHub]_vars

SpecClient == Init /\ [][NextClient]_vars

SpecHubOverlap == Init /\ [][NextHubOverlap]_vars

SpecRead == Init /\ [][NextRead]_vars

SpecResume == Init /\ [][NextResume]_vars

\* every await of the wait loop ends: each fetch carries a timeout signal and
\* the one-second sleeps are timers
FairSpecPipe ==
  /\ SpecPipe
  /\ WF_vars(\E d \in 0..1, st \in Statuses, answered \in BOOLEAN, keys \in BOOLEAN :
               Poll(d, st, answered, keys))
  /\ WF_vars(Respond)

\* timers fire: a pending setTimeout callback is eventually run by the event loop
FairSpecHub == SpecHub /\ \A s \in LoopSlots : WF_vars(GraceFire(s))

(***************************************************************************)
(* Claims about the creation request, chunking and reassembly              *)
(***************************************************************************)
\* C1: a creation request in which a status poll answered 'failed' ends with a
\* failure response (success: false), never with a success response.
C1_FailedIsFatal ==
  (pc = "done" /\ sawFailed) => ~response.success

\* the chunked path ran to its response and the item was read back from a
\* store that returned the stored bytes
Reassembled ==
  dl.pc = "done" /\ dl.intact /\ dl.result \notin {"metadata failed", "chunk failed"}

\* n = ceil(size / chunk), stated without the division
IsCeil(n, size, chunk) == n * chunk >= size /\ (n - 1) * chunk < size

\* C8: reading a chunked item back from a store that returns the stored bytes
\* yields exactly the original bytes (never a size mismatch), and the manifest
\* it was read through has totalChunks = ceil(N / chunkSize).
C8_RoundTrip ==
  Reassembled =>
    /\ dl.result = "ok"
    /\ dl.data = buffer
    /\ IsCeil(dl.meta.totalChunks, Len(buffer), CHUNK_SIZE)

\* a payload of three chunks, the last one short, was read back
C8_Witness ==
  /\ Reassembled
  /\ Len(buffer) = 2 * CHUNK_SIZE + 1
  /\ dl.i = 3
  /\ buffer[1] # buffer[CHUNK_SIZE + 1]

RECURSIVE SumLen(_, _)
\* total length of the objects ids[1..k]
SumLen(ids, k) == IF k = 0 THEN 0 ELSE SumLen(ids, k - 1) + Len(objects[ids[k]].bytes)

ManifestOk(m) ==
  /\ m.totalSize = Len(buffer)
  /\ m.chunkSize = CHUNK_SIZE
  /\ IsCeil(m.totalChunks, m.totalSize, m.chunkSize)
  /\ Len(m.chunkIds) = m.totalChunks
  /\ \A i \in 0..(m.totalChunks - 1) :
        LET lo == i * m.chunkSize
            hi == Min((i + 1) * m.chunkSize, m.totalSize)
            chunk == objects[m.chunkIds[i + 1]]
        IN /\ m.chunkIds[i + 1] \in 1..Len(objects)
           /\ chunk.name = ChunkName(m.originalFileName, i)
           /\ Len(chunk.bytes) = hi - lo
           /\ \A j \in 1..(hi - lo) : chunk.bytes[j] = buffer[lo + j]
           /\ (i < m.totalChunks - 1 => Len(chunk.bytes) = m.chunkSize)
           /\ Len(chunk.bytes) \in 1..m.chunkSize
  /\ SumLen(m.chunkIds, m.totalChunks) = m.totalSize

\* C9: every manifest in the store has totalChunks = ceil(totalSize / chunkSize)
\* and exactly totalChunks chunk identifiers; entry i is the object stored for
\* the bytes [i*chunkSize, min((i+1)*chunkSize, totalSize)) of the payload;
\* every chunk but the last has chunkSize bytes; the sizes sum to totalSize.
C9_ManifestInvariant ==
  \A k \in 1..Len(objects) : objects[k].json # NoJson => ManifestOk(objects[k].json)

\* a manifest of three chunks, the last one short, is in the store
C9_Witness ==
  \E k \in 1..Len(objects) :
    /\ objects[k].json # NoJson
    /\ objects[k].json.totalChunks = 3
    /\ objects[k].json.totalSize = 2 * CHUNK_SIZE + 1

\* the upload calls of a request that was answered with success
DirectStored ==
  /\ Len(calls) = 1
  /\ Len(objects) = 1
  /\ objects[1].name = PlainName(FileNameOf(req))
  /\ objects[1].bytes = buffer
  /\ objects[1].json = NoJson
  /\ response.id = 1

ChunkedStored ==
  /\ Len(calls) > 2
  /\ Len(objects) = Len(calls)
  /\ objects[Len(objects)].json # NoJson
  /\ objects[Len(objects)].name = MetadataName(FileNameOf(req))
  /\ \A k \in 1..(Len(objects) - 1) : objects[k].name.suffix = ".chunk."
  /\ response.id = Len(objects)

\* C10: a file request that is answered with success stored its decoded
\* payload by one direct upload when the payload has at most CHUNK_SIZE bytes,
\* and by chunks plus a manifest when it has CHUNK_SIZE + 1 bytes or more.
C10_ThresholdBoundary ==
  (pc = "done" /\ response.success /\ req.kind = "file") =>
    /\ Len(buffer) <= CHUNK_SIZE => DirectStored
    /\ Len(buffer) >= CHUNK_SIZE + 1 => ChunkedStored

\* a payload of exactly CHUNK_SIZE bytes was stored directly
C10_Witness ==
  /\ pc = "done"
  /\ response.success
  /\ req.kind = "file"
  /\ Len(buffer) = CHUNK_SIZE
  /\ DirectStored

\* a payload of CHUNK_SIZE + 1 bytes was stored in chunks
C10_WitnessChunked ==
  /\ pc = "done"
  /\ response.success
  /\ Len(buffer) = CHUNK_SIZE + 1
  /\ ChunkedStored

\* the upload call k of the request threw
FailedCall(k) == k \in 1..Len(calls) /\ ~calls[k].ok

\* C11: once the upload of a chunk has failed, no later upload call is made
\* (no later chunk, no manifest), no manifest is in the store, no identifier
\* is returned and the request is answered with success: false.
C11_ChunkFailureAborts ==
  \A k \in 1..Len(calls) :
    (FailedCall(k) /\ calls[k].name.suffix = ".chunk.") =>
      /\ k = Len(calls)
      /\ \A j \in 1..Len(objects) :
            objects[j].json = NoJson /\ objects[j].name.suffix # ".metadata.json"
      /\ fileId = 0
      /\ pc = "done"
      /\ response = Failure
      /\ dl = NoDownload

\* the second chunk of a payload failed after the first was stored
C11_Witness ==
  /\ Len(calls) = 2
  /\ calls[1].ok
  /\ FailedCall(2)
  /\ calls[2].name = ChunkName(FileNameOf(req), 1)
  /\ Len(objects) = 1
  /\ TotalChunks(Len(buffer)) = 3

\* C12: downloadFileFromChunks returns data only when the concatenation of
\* the fetched chunks has the manifest's totalSize; when every chunk was
\* fetched and the lengths differ it ends with the size-mismatch error.
C12_LengthChecked ==
  /\ dl.result = "ok" => Len(dl.data) = dl.meta.totalSize
  /\ (dl.pc = "done" /\ dl.meta # NoJson /\ dl.i = dl.meta.totalChunks
         /\ Len(dl.data) # dl.meta.totalSize) => dl.result = "size mismatch"

\* a read in which a chunk came back truncated or padded ended in the error
C12_Witness ==
  /\ dl.pc = "done"
  /\ ~dl.intact
  /\ dl.i = dl.meta.totalChunks
  /\ Len(dl.data) = dl.meta.totalSize + 1
  /\ dl.result = "size mismatch"

\* the response of the expired window
StillUploading == [success |-> TRUE, status |-> "uploading", id |-> fileId]

\* C13: the wait loop of a request whose upload succeeded always ends with a
\* response, and when no poll observed completion (the store answered
\* non-terminal statuses or the polls threw) the response is sent only once
\* the window has expired and is success: true, status 'uploading' with the
\* item's identifier.
C13_BoundedWait ==
  /\ (pc = "poll") ~> (pc = "done" /\ response.success)
  /\ [](( pc = "done" /\ fileId # 0 /\ ~uploadCompleted /\ ~sawFailed) =>
          (response = StillUploading /\ elapsed >= MaxWaitTime))

\* the window expired on a request whose polls never saw completion
C13_Witness ==
  /\ pc = "done"
  /\ fileId # 0
  /\ ~uploadCompleted
  /\ ~sawFailed
  /\ storeStatus = "uploading"
  /\ pollErrors > 0
  /\ pollErrors < MaxWaitTime
  /\ response = StillUploading

\* C14: every logical object is sent by at most one upload call, an upload
\* call that failed is the last call of the request and the request is
\* answered with the failure response, and the status polls make no upload
\* call.
C14_UploadNeverRetried ==
  /\ \A j, k \in 1..Len(calls) : calls[j].name = calls[k].name => j = k
  /\ \A k \in 1..Len(calls) :
        FailedCall(k) => (k = Len(calls) /\ pc = "done" /\ response = Failure)
  /\ (req.kind = "text" \/ ~NeedsChunking(buffer)) => Len(calls) <= 1
  /\ Len(calls) <= TotalChunks(Len(buffer)) + 1
  /\ (elapsed > 0 \/ pollErrors > 0) => \A k \in 1..Len(calls) : calls[k].ok

\* the direct upload of a request failed at its only attempt
C14_Witness ==
  /\ pc = "done"
  /\ req.kind = "file"
  /\ Len(calls) = 1
  /\ FailedCall(1)
  /\ calls[1].name.suffix = ""
  /\ response = Failure

\* a step in which a status poll of the request threw
PollThrew == pollErrors' = pollErrors + 1

\* C15: a status poll that throws leaves the request in its wait loop with no
\* response sent and at least one second later, and a request in which a
\* poll threw is answered with a success response, 'completed' or 'uploading'.
C15_PollErrorTolerated ==
  /\ [][PollThrew =>
          /\ pc' = "poll"
          /\ response' = NoResponse
          /\ elapsed' >= elapsed + 1
          /\ UNCHANGED <<uploadCompleted, entities, fileId, calls, objects>>]_vars
  /\ []((pc = "done" /\ pollErrors > 0) =>
          /\ response.success
          /\ response.status \in {"completed", "uploading"}
          /\ response.id = fileId)

\* a poll threw, a later poll saw completion, the request answered 'completed'
C15_Witness ==
  /\ pc = "done"
  /\ pollErrors > 0
  /\ uploadCompleted
  /\ response = [success |-> TRUE, status |-> "completed", id |-> fileId]

(***************************************************************************)
(* Claims about the retention                                              *)
(***************************************************************************)
\* n is the day count derived from a remaining time of r milliseconds: the
\* whole days that cover r, and 1 when r is a day or less (or in the past)
IsDerivedDays(n, r) ==
  \/ n = 1 /\ r <= DayMs
  \/ n > 1 /\ (n - 1) * DayMs < r /\ r <= n * DayMs

\* C20: the effective retention is the requested ttlDays (the default when
\* omitted) without an expiresAt, and with one the smaller of the requested
\* ttlDays and the day count derived from expiresAt, floored to 1; it is at
\* least one day and at most the requested ttlDays.
C20_EffectiveRetention ==
  ttlBody.parsed =>
    LET requested == IF ttlBody.ttlDays = 0 THEN DefaultTtlDays * DayParts
                     ELSE ttlBody.ttlDays
    IN /\ effectiveTtlDays >= DayParts
       /\ effectiveTtlDays <= requested
       /\ ~ttlBody.hasExpiresAt => effectiveTtlDays = requested
       /\ ttlBody.hasExpiresAt =>
             \E n \in 1..(MaxRemainingDays + 1) :
               /\ IsDerivedDays(n, ttlBody.remaining)
               /\ effectiveTtlDays = IF requested < n * DayParts THEN requested
                                     ELSE n * DayParts

\* an expiresAt in the past was floored to one day under a longer ttlDays
C20_Witness ==
  /\ ttlBody.parsed
  /\ ttlBody.hasExpiresAt
  /\ ttlBody.remaining < 0
  /\ ttlBody.ttlDays = 3 * DayParts
  /\ effectiveTtlDays = DayParts

\* a fractional ttlDays was the smaller of the two
C20_WitnessRequested ==
  /\ ttlBody.parsed
  /\ ttlBody.hasExpiresAt
  /\ ttlBody.remaining = DayMs + 1
  /\ ttlBody.ttlDays = DayParts + 1
  /\ effectiveTtlDays = DayParts + 1

(***************************************************************************)
(* Claims about the hub                                                    *)
(***************************************************************************)
ActiveLoops(id) == {s \in LoopSlots : loops[s].id = id /\ loops[s].active}

\* C2: in every reachable state at most one monitoring loop (interval timer)
\* is active per upload identifier.
C2_OneLoopPerId == \A id \in Ids : Cardinality(ActiveLoops(id)) <= 1

\* a step in which the callback of loop s starts a status poll
PollIssued(s) ==
  /\ loops[s].id # 0
  /\ loops'[s].id = loops[s].id
  /\ InFlightCount(loops'[s]) > InFlightCount(loops[s])

\* C3: a monitoring loop issues a status poll for an identifier only while the
\* identifier has a subscriber set: once the set is empty (its entry removed)
\* no poll is issued until a subscribe message creates the entry again.
C3_NoPollWithoutSubscribers ==
  [][\A s \in LoopSlots :
       PollIssued(s) => loops[s].id \in DOMAIN progressConnections]_vars

\* a step in which a grace timeout of loop s runs
GraceStep(s) ==
  /\ loops[s].grace > 0
  /\ (loops'[s].id = 0 \/ loops'[s].grace < loops[s].grace)

\* C4: once a poll returned a terminal status (a grace timeout is pending) the
\* registry entry of the identifier is eventually removed, and the step of the
\* grace timeout removes the entry and leaves no connection of its set open.
C4_TerminalCleanup ==
  /\ \A s \in LoopSlots, id \in Ids :
        (loops[s].id = id /\ loops[s].grace > 0) ~> (id \notin DOMAIN progressConnections)
  /\ [][\A s \in LoopSlots :
          GraceStep(s) =>
            /\ loops[s].id \notin DOMAIN progressConnections'
            /\ loops[s].id \in DOMAIN progressConnections =>
                  \A c \in progressConnections[loops[s].id] : readyState'[c] # "open"]_vars

\* the grace timeout has closed every connection of a finished identifier
C4_Witness ==
  \E id \in Ids :
    /\ IsTerminal(uploadStatus[id])
    /\ id \notin DOMAIN progressConnections
    /\ \A c \in Conns : wsData[c] = id /\ readyState[c] = "closing"
    /\ \A s \in LoopSlots : loops[s].id = 0

\* C5: the step that pushes a terminal status of a loop cancels the loop's
\* timer, and a loop whose timer is cancelled starts no further poll and is
\* never re-armed.
C5_TerminalStopsLoop ==
  [][\A s \in LoopSlots :
       /\ (loops[s].id # 0 /\ \E r \in {"completed", "failed"} :
              loops'[s].inflight[r] < loops[s].inflight[r])
            => ~loops'[s].active
       /\ (loops[s].id # 0 /\ ~loops[s].active)
            => /\ ~loops'[s].active
               /\ loops'[s].id \in {0, loops[s].id}
               /\ InFlightCount(loops'[s]) <= InFlightCount(loops[s])]_vars

\* a loop that pushed a terminal status: interval cleared, grace timeout pending
C5_Witness ==
  \E s \in LoopSlots :
    /\ loops[s].id # 0
    /\ ~loops[s].active
    /\ loops[s].grace > 0
    /\ loops[s].id \in DOMAIN progressConnections

\* the subscriber set of an identifier, empty when it has no entry
MembersOf(reg, id) == IF id \in DOMAIN reg THEN reg[id] ELSE {}
Members(id) == MembersOf(progressConnections, id)

\* C16: a tick whose status fetch throws sends the error frame to exactly the
\* open subscribers of its identifier and changes nothing else: the set, the
\* connections and the loops are as before and a loop of the identifier is
\* still active, so its next tick polls again.
C16_ErrorKeepsLoop ==
  [][sent'.type = "error" =>
       /\ sent'.to = OpenSubscribers(sent'.id)
       /\ sent'.status = "none"
       /\ UNCHANGED <<progressConnections, readyState, wsData, loops>>
       /\ \E s \in LoopSlots : loops'[s].id = sent'.id /\ loops'[s].active]_vars

\* both subscribers of an identifier were sent the error frame
C16_Witness ==
  /\ sent.type = "error"
  /\ sent.to = Conns
  /\ Members(sent.id) = Conns
  /\ uploadStatus[sent.id] = "uploading"

\* the loops a step starts for an identifier
Started(id) == {s \in LoopSlots : loops[s].id = 0 /\ loops'[s].id = id /\ loops'[s].active}

C18_ProgressToOpen ==
  [][/\ sent'.type = "progress" =>
          /\ sent'.to = OpenSubscribers(sent'.id)
          /\ MembersOf(progressConnections', sent'.id) = OpenSubscribers(sent'.id)
          /\ sent'.id \in DOMAIN progressConnections' <=> OpenSubscribers(sent'.id) # {}
     /\ \A c \in sent'.to : readyState[c] = "open"]_vars

\* a tick sent the frame to the open subscriber and pruned the closing one
C18_Witness ==
  /\ sent.type = "progress"
  /\ sent.to = {1}
  /\ Members(sent.id) = {1}
  /\ wsData[2] = sent.id
  /\ readyState[2] = "closing"

\* what the hub holds for one identifier
View(id) ==
  [has |-> id \in DOMAIN progressConnections,
   set |-> Members(id),
   open |-> OpenSubscribers(id),
   loops |-> [s \in LoopSlots |-> IF loops[s].id = id THEN loops[s] ELSE FreeLoop]]

\* a step of the hub itself, as opposed to the peer closing a connection or
\* the store finishing an upload
HubActed ==
  \/ loops' # loops
  \/ progressConnections' # progressConnections
  \/ sent' # NoSend

\* the frames of a step go to members of the identifier they are about
NoForeignFrame ==
  sent'.to \subseteq (Members(sent'.id) \cup MembersOf(progressConnections', sent'.id))

\* C19: every step of the hub is about one identifier A: the subscriber set,
\* the open connections and the loops of every other identifier are the
\* same after the step, and the frames of the step go only to members of
\* the set of A.
C19_Independence ==
  [][/\ HubActed => \E A \in Ids : \A B \in Ids \ {A} : View(B)' = View(B)
     /\ NoForeignFrame]_vars

\* the second half of C19 alone
C19_NoForeignFrame == [][NoForeignFrame]_vars

(***************************************************************************)
(* Claims about the client subscriber                                      *)
(***************************************************************************)
\* C6: no reconnect timer is pending for a socket that the effect cleanup
\* closed: the close event of a torn-down socket schedules no reconnect.
C6_NoReconnectAfterTeardown ==
  \A k \in 1..Len(socks) : socks[k].tornDown => socks[k].timer # "pending"

\* a step in which the close event of socket k is handled
CloseStep(k) ==
  /\ k \in 1..Len(socks)
  /\ socks[k].state # "closed"
  /\ socks'[k].state = "closed"

\* a step in which the reconnect timer of socket k fires
FireStep(k) ==
  /\ k \in 1..Len(socks)
  /\ socks[k].timer = "pending"
  /\ socks'[k].timer = "fired"

\* C7: a close event schedules a reconnect exactly when its code is not 1000
\* and the last progress is neither completed nor failed, and every reconnect
\* timer that fires makes exactly one connection attempt.
C7_ReconnectPolicy ==
  [][\A k \in 1..MaxSockets :
       /\ CloseStep(k) =>
            ((socks'[k].timer = "pending") <=>
               (lastCode' # 1000 /\ ~ProgressTerminal(progressRef)))
       /\ FireStep(k) => Len(socks') = Len(socks) + 1]_vars

\* the scheduling half of C7 alone
C7_ScheduleIff ==
  [][\A k \in 1..MaxSockets :
       CloseStep(k) =>
         ((socks'[k].timer = "pending") <=>
            (lastCode' # 1000 /\ ~ProgressTerminal(progressRef)))]_vars

(***************************************************************************)
(* Claims C21..C30                                                         *)
(***************************************************************************)
\* the request takes the chunked path of the handler
OnChunkPath == req.kind = "file" /\ NeedsChunking(buffer)

AllOk(cs) == \A k \in 1..Len(cs) : cs[k].ok

\* C22: uploadFileWithChunking uploads strictly one after the other and in
\* order: at most one upload is in flight; the upload in flight is that of
\* the chunk whose predecessors have all returned successfully, or that of the
\* manifest once all N chunks have succeeded; the calls are chunk 0..N-1 and
\* then the manifest; a successful run has made exactly N+1 calls and N+1 objects.
C22_SequentialUploads ==
  LET fn == FileNameOf(req)
      N == TotalChunks(Len(buffer))
  IN /\ Cardinality(inFlight) <= 1
     /\ OnChunkPath =>
          /\ Len(calls) <= N + 1
          /\ \A k \in 1..Len(calls) :
               /\ calls[k].name = IF k <= N THEN ChunkName(fn, k - 1) ELSE MetadataName(fn)
               /\ k < Len(calls) => calls[k].ok
          /\ \A n \in inFlight :
               /\ AllOk(calls)
               /\ n = IF Len(calls) < N THEN ChunkName(fn, Len(calls)) ELSE MetadataName(fn)
               /\ n.suffix = ".metadata.json" => Len(chunkIds) = N
          /\ fileId # 0 =>
               /\ Len(calls) = N + 1
               /\ AllOk(calls)
               /\ Len(objects) = N + 1

\* a chunked upload of three chunks succeeded: four objects
C22_Witness ==
  /\ OnChunkPath
  /\ TotalChunks(Len(buffer)) = 3
  /\ fileId = 4
  /\ Len(objects) = 4

\* the downloads made so far are the manifest and then its chunks in
\* manifest order, none left out and none repeated
FetchedInManifestOrder ==
  dl.pc # "none" =>
    /\ Len(dl.fetched) >= 1
    /\ dl.fetched[1] = fileId
    /\ \A k \in 2..Len(dl.fetched) :
         /\ k - 1 <= Len(dl.meta.chunkIds)
         /\ dl.fetched[k] = dl.meta.chunkIds[k - 1]

\* reassembly ended with the error of a chunk download
ChunkDownloadFailed == dl.result = "chunk failed"

\* the failing download is the last one made and the function has thrown: the
\* result is the error, not the chunks read before it
AbortedAtFailure ==
  ChunkDownloadFailed =>
    /\ dl.pc = "done"
    /\ Len(dl.fetched) = dl.i + 2
    /\ dl.fetched[Len(dl.fetched)] = dl.meta.chunkIds[dl.i + 1]

C26_CompletedReported ==
  (pc = "done" /\ response.success) =>
    /\ uploadCompleted => response.status = "completed"
    /\ response.status = "uploading" => ~uploadCompleted

\* C24: once the close handler has run for a connection, the connection is a
\* member of no identifier's subscriber set, whatever it had subscribed to.
C24_ClosedInNoSet ==
  \A c \in Conns :
    readyState[c] = "closed" => \A id \in Ids : c \notin Members(id)

\* the sockets of the instance that are connecting or open
LiveSockets == {k \in 1..Len(socks) : socks[k].state \in {"connecting", "open"}}

\* C25: at most one socket of a subscriber instance is connecting or open at
\* any time.
C25_OneLiveSocket == Cardinality(LiveSockets) <= 1

\* C28: once a connection has been sent a progress frame with a terminal
\* status for an identifier, no later step sends it a progress frame with a
\* non-terminal status for that identifier.
C28_TerminalIsLast ==
  [][(sent'.type = "progress" /\ ~IsTerminal(sent'.status)) =>
       \A c \in sent'.to : sent'.id \notin terminalSent[c]]_vars

\* C30: a connection subscribed to an identifier whose upload is terminal is
\* closed by the hub only after it has been sent a progress frame with the
\* terminal status for that identifier, also when it subscribed during the
\* 5000 ms window of an earlier loop.
C30_TerminalBeforeClose ==
  [][\A s \in LoopSlots, c \in Conns :
       (GraceStep(s) /\ readyState[c] = "open" /\ readyState'[c] = "closing") =>
          loops[s].id \in terminalSent[c]]_vars

\* C21: GET /v1/clipboard/{id} for an item whose expiry time has passed at
\* read time answers with an expired-item error and without the content.
C21_ExpiredRefused ==
  (read.route = "get" /\ read.expired) =>
    /\ read.status = "expired"
    /\ read.data = <<>>

\* C29: both read routes reassemble from chunks exactly when the item was
\* stored through the chunked path, and an item stored by direct upload is
\* read back by one direct download that returns its bytes unchanged.
C29_ReadMatchesWrite ==
  /\ read.reassembled => item.path = "chunked"
  /\ read.status = "ok" =>
       /\ item.path = "chunked" => read.reassembled
       /\ item.path = "direct" => read.data = item.bytes

\* the answer of getUploadSessionStatus led to an upload
Uploadable == {"failed", "incomplete", "completed without file_id"}

\* C27: a call of uploadFileWithResumption whose session the store reports as
\* completed with a file_id returns that file_id and sends no POST /files; a
\* call sends a POST, one and with its session key as Idempotency-Key, only
\* when the lookup failed (no session, or an error) or reported a session that
\* is not completed with a file_id.
C27_Idempotent ==
  /\ resume.lookup = "completed" =>
       /\ resume.pc = "done"
       /\ resume.posted = 0
       /\ resume.result = sessions[resume.key].file_id
  /\ resume.pc = "upload" => resume.lookup \in Uploadable
  /\ resume.posted > 0 =>
       /\ resume.lookup \in Uploadable
       /\ resume.posted = 1
       /\ posts[Len(posts)] = resume.key

\* a second call with the key of an upload that completed returned the file
\* of the first call without a second POST
C27_Witness ==
  /\ resume.pc = "done"
  /\ resume.lookup = "completed"
  /\ resume.key # 0
  /\ posts = <<resume.key>>
  /\ created = 1
  /\ resume.result = 1
====
